---- MODULE Spec2Model ----
(***************************************************************************)
(* terminal-3d: three procedurally built 3D scenes (solar system,          *)
(* geometric garden, asteroid field), a per-frame animator, a keymap that  *)
(* accumulates camera offsets, and a frame callback that places the        *)
(* camera.  Source: src/index.ts.                                          *)
(*                                                                         *)
(* Numbers.  The program computes in IEEE doubles; the model computes in   *)
(* exact fixed point:                                                      *)
(*   time, deltaTime      whole time units (the value handed to animate)   *)
(*   angles, speeds       1/1000 (milli-radians, milli-radians per unit)   *)
(*   radii, amplitudes    1/1000                                           *)
(*   Sin, Cos results     1/1000                                           *)
(*   positions, scales    1/1000000 (a trig value times a radius)          *)
(* Every product the code forms is formed here too, without rounding; the  *)
(* only approximation is Sin itself (a Taylor polynomial, as Math.sin is   *)
(* an approximation of the sine).                                          *)
(***************************************************************************)
EXTENDS Integers, Sequences, FiniteSets, TLC

\* ------------------------------------------------------------------ bounds
\* performance.now()/1000 takes the values 0..MaxTime in the frame callback
MaxTime == 1
\* the frame delta handed in by the host takes the values 0..MaxDelta
MaxDelta == 1
\* key presses handled in one run
MaxKeys == 2
\* frame callbacks run in one run
MaxFrames == 1
\* 'frame' events delivered to the single-scene program in one run
MaxListenerFrames == 2
\* direct switchScene calls in one run (SpecSwitch)
MaxSwitch == 1
\* animate calls made on one built scene (SpecAnim), and the values
\* 0..MaxAnimTime and 0..MaxAnimDelta of their arguments
MaxCalls == 4
MaxAnimTime == 3
MaxAnimDelta == 3
\* asteroids built by buildAsteroidField (the program builds 50)
NumAsteroids == 2

\* ------------------------------------------------------------- fixed point
\* 1.0 in 1/1000 units
Milli == 10 * 10 * 10
\* 1.0 in 1/1000000 units
Micro == Milli * Milli
\* Math.PI in milli-radians
Pi == 3142
HalfPi == Pi \div 2
TwoPi == 2 * Pi

Vec(px, py, pz) == [x |-> px, y |-> py, z |-> pz]

\* Math.sin on the first quadrant 0..HalfPi: x - x^3/3! + x^5/5! - x^7/7!
SinQ(a) ==
  LET x2 == (a * a) \div Milli
      t3 == (a * x2) \div (6 * Milli)
      t5 == (t3 * x2) \div (20 * Milli)
      t7 == (t5 * x2) \div (42 * Milli)
  IN  a - t3 + t5 - t7

\* Math.sin of an angle in milli-radians, result in 1/1000
Sin(a) ==
  LET r == a % TwoPi
  IN  IF r <= HalfPi THEN SinQ(r)
      ELSE IF r <= Pi THEN SinQ(Pi - r)
      ELSE IF r <= Pi + HalfPi THEN 0 - SinQ(r - Pi)
      ELSE 0 - SinQ(TwoPi - r)

\* Math.cos
Cos(a) == Sin(a + HalfPi)

\* x * 0.7, x * 0.5, x * 0.3 ...: a product with a decimal literal n/10
Tenths(x, n) == (x * n) \div 10

\* ------------------------------------------------- scene 1: solar system
\* the integrator of a deltaTime-accumulated rotation, mutated: the step is
\* capped at one time unit
SpinClamped(rot, rate, deltaTime) ==
  rot + rate * (IF deltaTime > 1 THEN 1 ELSE deltaTime)

\* the integrator mutated: a zero delta is replaced by a minimum step of one
SpinMinStep(rot, rate, deltaTime) ==
  rot + rate * (IF deltaTime = 0 THEN 1 ELSE deltaTime)

\* rotation += rate * deltaTime
Spin(rot, rate, deltaTime) == rot + rate * deltaTime

\* an angle set absolutely, mutated: the formula ignores the phase and is
\* added to the previous value (an accumulated angle)
OrbitAngleAccumulated(prev, phase, time, rate) == prev + time * rate

\* an angle set absolutely from time: phase + time * rate
\* (prev, the value being overwritten, is not read)
OrbitAngle(prev, phase, time, rate) == phase + time * rate

createBody(orbitRadius, orbitSpeed, rotationSpeed, tilt, yOffset) ==
  [ orbitRadius |-> orbitRadius, orbitSpeed |-> orbitSpeed,
    rotationSpeed |-> rotationSpeed, tilt |-> tilt, yOffset |-> yOffset,
    group |-> [rotY |-> 0, rotZ |-> 0],
    mesh |-> [pos |-> Vec(orbitRadius * Milli, 0, 0), rotX |-> 0, rotY |-> 0] ]

\* the five planets, in push order
SolarBodies ==
  << createBody(3500, 1200, 2000, 100, 0),
     createBody(5500, 700, 1500, -150, 0),
     createBody(8000, 400, 800, 200, 0),
     createBody(10500, 250, 3000, -100, 500),
     createBody(13000, 150, 1200, 50, 0) >>

\* parent is the index of the body whose mesh the moon is a child of
addMoon(parent, radius, speed) ==
  [ parent |-> parent, orbitRadius |-> radius, speed |-> speed,
    pos |-> Vec(0, 0, 0) ]

SolarMoons ==
  << addMoon(3, 1500, 2500), addMoon(3, 2000, 1800), addMoon(5, 1000, 3000) >>

\* the scene graph returned by buildSolarSystem (the 40 stars and the ring
\* are static and carry no state the animator touches)
buildSolarSystem(id) ==
  [ def |-> 0, id |-> id,
    sun |-> [scale |-> Vec(Micro, Micro, Micro), rotY |-> 0],
    bodies |-> SolarBodies,
    moons |-> SolarMoons,
    comet |-> [pos |-> Vec(0, 0, 0), rotX |-> 0, rotZ |-> 0],
    sunLight |-> Vec(0, 0, 0),
    accentLight1 |-> Vec(0, 0, 0),
    accentLight2 |-> Vec(0, 0, 0) ]

\* a mutant of the body update: the vertical bob leaves out yOffset and the
\* orbital plane is not tilted
AnimateBodyFlat(b, time, deltaTime) ==
  [ b EXCEPT
      !.group.rotY = OrbitAngle(@, 0, time, b.orbitSpeed),
      !.mesh.rotY = Spin(@, b.rotationSpeed, deltaTime),
      !.mesh.rotX = Spin(@, Tenths(b.rotationSpeed, 3), deltaTime),
      !.mesh.pos.y = Sin(Tenths(time * b.orbitSpeed, 5)) * 300 ]

\* one iteration of `for (const body of bodies)`
AnimateBody(b, time, deltaTime) ==
  [ b EXCEPT
      !.group.rotY = OrbitAngle(@, 0, time, b.orbitSpeed),
      !.group.rotZ = b.tilt,
      !.mesh.rotY = Spin(@, b.rotationSpeed, deltaTime),
      !.mesh.rotX = Spin(@, Tenths(b.rotationSpeed, 3), deltaTime),
      !.mesh.pos.y = b.yOffset * Milli + Sin(Tenths(time * b.orbitSpeed, 5)) * 300 ]

\* one iteration of `for (const moon of moons)`
AnimateMoon(m, time) ==
  LET a == time * m.speed
  IN  [ m EXCEPT !.pos = Vec(Cos(a) * m.orbitRadius,
                             Sin(Tenths(a, 7)) * 200,
                             Sin(a) * m.orbitRadius) ]

\* the animate closure returned by buildSolarSystem
AnimateSolar(s, time, deltaTime) ==
  LET pulse == Micro + Sin(time * 2000) * 50
      ca == time * 600
  IN  [ s EXCEPT
          !.sun = [scale |-> Vec(pulse, pulse, pulse), rotY |-> time * 300],
          !.bodies = [i \in DOMAIN s.bodies |-> AnimateBody(s.bodies[i], time, deltaTime)],
          !.moons = [i \in DOMAIN s.moons |-> AnimateMoon(s.moons[i], time)],
          !.comet = [pos |-> Vec(Cos(ca) * 16000, Sin(ca * 2) * 3000, Sin(ca) * 8000),
                     rotX |-> time * 2000, rotZ |-> time * 1500],
          !.accentLight1 = Vec(Sin(time * 300) * 12000, Cos(time * 400) * 5000,
                               Cos(time * 200) * 12000),
          !.accentLight2 = Vec(Cos(time * 250) * 10000, Sin(time * 350) * 4000,
                               Sin(time * 300) * 10000) ]

\* --------------------------------------------- scene 2: geometric garden
\* geometries.length
NumShapes == 8

\* the spiral layout: shape i (0-based) at angle i/8 of a turn, radius 3 + 0.8 i
createShape(i) ==
  LET angle == (i * TwoPi) \div NumShapes
      radius == 3000 + i * 800
  IN  [ idx |-> i, baseY |-> 0,
        pos |-> Vec(Cos(angle) * radius, 0, Sin(angle) * radius),
        rotX |-> 0, rotY |-> 0 ]

buildGeometricGarden(id) ==
  [ def |-> 1, id |-> id,
    shapes |-> [k \in 1..NumShapes |-> createShape(k - 1)],
    center |-> [scale |-> Vec(Micro, Micro, Micro), rotX |-> 0, rotY |-> 0],
    light1 |-> Vec(0, 0, 0), light2 |-> Vec(0, 0, 0), light3 |-> Vec(0, 0, 0) ]

\* one iteration of `for (const s of shapes)`
AnimateShape(sh, time) ==
  [ sh EXCEPT
      !.rotX = time * (500 + sh.idx * 150),
      !.rotY = time * (300 + sh.idx * 100),
      !.pos.y = Sin(time * 1500 + sh.idx * 800) * 1500 ]

\* the animate closure returned by buildGeometricGarden (deltaTime unused)
AnimateGarden(s, time) ==
  LET cp == Micro + Sin(time * 3000) * 100
  IN  [ s EXCEPT
          !.center = [scale |-> Vec(cp, cp, cp), rotX |-> time * 500, rotY |-> time * 300],
          !.shapes = [k \in DOMAIN s.shapes |-> AnimateShape(s.shapes[k], time)],
          !.light1 = Vec(Sin(time * 700) * 8000, 4 * Micro, Cos(time * 500) * 8000),
          !.light2 = Vec(Cos(time * 600) * 8000, (0 - 2) * Micro, Sin(time * 800) * 8000),
          !.light3 = Vec(Sin(time * 400) * 6000, Cos(time * 900) * 4000,
                         Cos(time * 300) * 6000) ]

\* ----------------------------------------------- scene 3: asteroid field
\* Math.random() draws of one asteroid, each in 1/1000 of [0, 1): the
\* position angle, radius and height, the three start rotations, the two
\* spins and the drift speed
RandomDraws ==
  { [angle |-> 0, radius |-> 0, y |-> 0, rx |-> 0, ry |-> 0, rz |-> 0,
     spinX |-> 0, spinY |-> 0, drift |-> 0],
    [angle |-> 250, radius |-> 500, y |-> 750, rx |-> 500, ry |-> 250, rz |-> 900,
     spinX |-> 750, spinY |-> 500, drift |-> 500] }

\* one iteration of the asteroid loop of buildAsteroidField
createAsteroid(r) ==
  LET angle == (r.angle * TwoPi) \div Milli
      radius == 3000 + r.radius * 15
      y == (r.y - 500) * 8
  IN  [ spinX |-> (r.spinX - 500) * 2, spinY |-> (r.spinY - 500) * 2,
        driftAngle |-> angle, driftRadius |-> radius,
        driftSpeed |-> 20 + (r.drift * 80) \div Milli, baseY |-> y,
        pos |-> Vec(Cos(angle) * radius, y * Milli, Sin(angle) * radius),
        rotX |-> (r.rx * Pi) \div Milli, rotY |-> (r.ry * Pi) \div Milli,
        rotZ |-> (r.rz * Pi) \div Milli ]

\* the layouts a build can produce: one draw vector per asteroid
AsteroidLayouts == [1..NumAsteroids -> RandomDraws]

\* the scene graph returned by buildAsteroidField for the draws `layout`
\* (clouds and stars are static and carry no state the animator touches)
buildAsteroidField(id, layout) ==
  [ def |-> 2, id |-> id,
    asteroids |-> [k \in 1..NumAsteroids |-> createAsteroid(layout[k])],
    starLight |-> Vec(30 * Micro, 20 * Micro, (0 - 30) * Micro),
    nebulaLight1 |-> Vec(0, 0, 0), nebulaLight2 |-> Vec(0, 0, 0) ]

\* one iteration of `for (const a of asteroids)`
AnimateAsteroid(a, time, deltaTime) ==
  LET angle == OrbitAngle(0, a.driftAngle, time, a.driftSpeed)
  IN  [ a EXCEPT
          !.rotX = Spin(@, a.spinX, deltaTime),
          !.rotY = Spin(@, a.spinY, deltaTime),
          !.pos = Vec(Cos(angle) * a.driftRadius,
                      a.baseY * Milli + Sin(time * a.driftSpeed * 3) * 500,
                      Sin(angle) * a.driftRadius) ]

\* the animate closure returned by buildAsteroidField
AnimateField(s, time, deltaTime) ==
  [ s EXCEPT
      !.asteroids = [k \in DOMAIN s.asteroids |->
                       AnimateAsteroid(s.asteroids[k], time, deltaTime)],
      !.nebulaLight1 = Vec(Sin(time * 150) * 15000, Cos(time * 200) * 6000,
                           Cos(time * 100) * 15000),
      !.nebulaLight2 = Vec(Cos(time * 120) * 12000, Sin(time * 180) * 5000,
                           Sin(time * 140) * 12000) ]

\* ------------------------------------------------------------ scene table
\* sceneDefs[i].title, orbitRadius, orbitHeight, orbitSpeed (build is Build)
sceneDefs ==
  << [title |-> "Solar System", orbitRadius |-> 18000, orbitHeight |-> 6000,
      orbitSpeed |-> 80],
     [title |-> "Geometric Garden", orbitRadius |-> 14000, orbitHeight |-> 5000,
      orbitSpeed |-> 120],
     [title |-> "Asteroid Field", orbitRadius |-> 20000, orbitHeight |-> 4000,
      orbitSpeed |-> 50] >>

\* sceneDefs.length
NumScenes == Len(sceneDefs)

\* sceneDefs[index].build(): the scenes one build call can return (index is
\* 0-based as in the source; id names the fresh Scene object)
Build(index, id) ==
  IF index = 0 THEN {buildSolarSystem(id)}
  ELSE IF index = 1 THEN {buildGeometricGarden(id)}
  ELSE {buildAsteroidField(id, l) : l \in AsteroidLayouts}

\* the animate closure of scene s applied once: s is the scene it closed over
Animate(s, time, deltaTime) ==
  IF s.def = 0 THEN AnimateSolar(s, time, deltaTime)
  ELSE IF s.def = 1 THEN AnimateGarden(s, time)
  ELSE AnimateField(s, time, deltaTime)

\* ------------------------------------------------------------------ state
VARIABLES
  camOffset,      \* the CameraOffset record {x, y, z, rotY}
  currentIndex,   \* index of the active scene definition, 0-based
  currentScene,   \* the Scene object the program holds (a built scene graph)
  currentAnimate, \* the animate closure held: the id of the scene it closed over
  cameraParent,   \* id of the scene the camera is a child of, NoScene if none
  viewScene,      \* id of the scene the ThreeRenderable renders
  titleText,      \* titleText.content
  superSampling,  \* the engine's supersampling flag
  camera,         \* camera.position and the point of the last camera.lookAt
  now,            \* the last value read from performance.now() / 1000
  crashed,        \* an exception escaped a handler
  nBuilt,         \* Scene objects built so far (ids 1..nBuilt)
  built,          \* history: currentScene as its build call returned it
  calls,          \* history: the animate calls made on currentScene since its build
  lastEvent,      \* history: the handler or call that ran last
  nKeys,          \* history: key presses handled
  nFrames,        \* history: frame callbacks run
  nSwitch         \* history: direct switchScene calls (SpecSwitch)

\* the sizes the multi-scene program holds, and the single-scene program
\* (src/unnamed/part_000)
VARIABLES
  layout,         \* terminal size, ThreeRenderable size, camera aspect, controlsText.y
  sCamera,        \* part_000: the camera's pose
  sScene,         \* part_000: the solar system of the one scene
  sPending,       \* part_000: engine.drawScene calls that have not completed
  sDrawn,         \* part_000: what the last completed drawScene call rendered
  sLayout,        \* part_000: terminal, frame buffer and engine size, aspect, controlsText.y
  sSuper,         \* part_000: the engine's supersampling toggle
  sNow,           \* part_000: performance.now() / 1000 at the last frame event
  sHist           \* part_000 history: last handler, and the numbers of handlers run

singleVars == << sCamera, sScene, sPending, sDrawn, sLayout, sSuper, sNow, sHist >>

multiVars == << camOffset, currentIndex, currentScene, currentAnimate, cameraParent,
                viewScene, titleText, superSampling, camera, now, crashed, nBuilt,
                built, calls, lastEvent, nKeys, nFrames, nSwitch >>

vars == << multiVars, layout, singleVars >>

\* what switchScene can change besides camOffset
sceneVars == << currentIndex, currentScene, currentAnimate, cameraParent,
                viewScene, titleText, nBuilt, built, calls, crashed >>

\* Object3D.parent === null
NoScene == 0

\* const camOffset = { x: 0, y: 0, z: 0, rotY: 0 }
ZeroOffset == [x |-> 0, y |-> 0, z |-> 0, rotY |-> 0]

\* a mutant of the title: it stays the title of the first scene definition
TitleOfFirst(index) == << "*", sceneDefs[1].title, "*" >>

\* the template literal of the title, in its three parts
Title(index) == << "*", sceneDefs[index + 1].title, "*" >>

\* no animate call yet on a freshly built scene
NoCalls == [n |-> 0, time |-> 0, delta |-> 0, same |-> TRUE]

\* the history after one more animate call: their number, the last time and
\* delta, and whether all deltas so far were equal
Called(h, time, deltaTime) ==
  [ n |-> h.n + 1, time |-> time, delta |-> deltaTime,
    same |-> (h.n = 0 \/ (h.same /\ h.delta = deltaTime)) ]

Event(op, arg) == [op |-> op, arg |-> arg]

\* ------------------------------------------------------- terminal sizes
\* the sizes the host reports, in columns and rows; a resize event reports a
\* size that differs from the one before
Sizes == { << 80, 24 >>, << 120, 40 >> }

\* renderer.terminalWidth and renderer.terminalHeight when main() starts
StartSize == << 80, 24 >>

RECURSIVE Gcd(_, _)
Gcd(a, b) == IF b = 0 THEN a ELSE Gcd(b, a % b)

\* a width-to-height ratio, as a reduced fraction
Ratio(w, h) == << w \div Gcd(w, h), h \div Gcd(w, h) >>

\* the multi-scene program: the ThreeRenderable is given WIDTH and HEIGHT,
\* the PerspectiveCamera the aspect 1, the controls text the top HEIGHT - 1
StartLayout ==
  [ terminal |-> StartSize,
    view |-> StartSize,
    aspect |-> Ratio(1, 1),
    controlsY |-> StartSize[2] - 1 ]

\* ------------------------------------- the single-scene program: set-up
\* a camera placed at `position` by position.set and lookAt(0, 0, 0), with
\* up (0, 1, 0); `moves` are the translateX/Y/Z and rotateY calls made on it
\* since, which act in the camera's own frame
Placed(position) ==
  [ position |-> position, target |-> Vec(0, 0, 0), up |-> Vec(0, 1, 0),
    moves |-> << >> ]

\* camera.translateX / translateY / translateZ(distance), distance in 1/1000000
translate(pose, axis, distance) ==
  [ pose EXCEPT !.moves = Append(@, << axis, distance >>) ]

\* camera.rotateY(angle), angle in 1/1000
rotateY(pose, angle) ==
  [ pose EXCEPT !.moves = Append(@, << "rotateY", angle >>) ]

\* frame buffer, engine and camera are all made from WIDTH and HEIGHT
SingleStartLayout ==
  [ terminal |-> StartSize,
    frameBuffer |-> StartSize,
    engine |-> StartSize,
    aspect |-> Ratio(StartSize[1], StartSize[2]),
    controlsY |-> StartSize[2] - 1 ]

\* no drawScene call has completed yet
NothingDrawn == [frame |-> 0, time |-> 0, pose |-> Placed(Vec(0, 8 * Micro, 18 * Micro))]

SingleHist(last, keys, frames, moved) ==
  [last |-> last, keys |-> keys, frames |-> frames, moved |-> moved]

\* main() of the single-scene program, up to renderer.on("frame", animate)
InitSingle ==
  /\ sCamera = Placed(Vec(0, 8 * Micro, 18 * Micro))
  /\ sScene = buildSolarSystem(1)
  /\ sPending = << >>
  /\ sDrawn = NothingDrawn
  /\ sLayout = SingleStartLayout
  /\ sSuper \in BOOLEAN
  /\ sNow = 0
  /\ sHist = SingleHist(Event("main", 0), 0, 0, FALSE)

\* main() of the multi-scene program, up to the registration of the handlers
InitMulti ==
  /\ camOffset = ZeroOffset
  /\ currentIndex = 0
  /\ currentScene \in Build(0, 1)
  /\ currentAnimate = 1
  /\ cameraParent = 1
  /\ viewScene = 1
  /\ titleText = Title(0)
  /\ superSampling \in BOOLEAN
  /\ camera = [position |-> Vec(0, 8 * Micro, 18 * Micro), target |-> Vec(0, 0, 0)]
  /\ now = 0
  /\ crashed = FALSE
  /\ nBuilt = 1
  /\ built = currentScene
  /\ calls = NoCalls
  /\ lastEvent = Event("main", 0)
  /\ nKeys = 0
  /\ nFrames = 0
  /\ nSwitch = 0
  /\ layout = StartLayout

\* the multi-scene program at its start; the single-scene program is another
\* process, held at a start state
Init ==
  /\ InitMulti
  /\ InitSingle
  /\ ~sSuper

\* the single-scene program at its start; the multi-scene program is another
\* process, held at a start state
InitSingleRun ==
  /\ InitSingle
  /\ InitMulti
  /\ ~superSampling

\* ------------------------------------------------------------ switchScene
\* a mutant of the guard: the range test is missing
SwitchGuardNoRange(index, current) == index = current

\* the early return of switchScene
SwitchGuard(index, current) ==
  index = current \/ index < 0 \/ index >= NumScenes

\* a mutant of the tail of switchScene: the yaw offset is not reset
ResetOffsetKeepYaw(off) == [off EXCEPT !.x = 0, !.y = 0, !.z = 0]

\* camOffset.x = 0; camOffset.y = 0; camOffset.z = 0; camOffset.rotY = 0
ResetOffset(off) == [off EXCEPT !.x = 0, !.y = 0, !.z = 0, !.rotY = 0]

\* switchScene(index), called when the CameraOffset record holds off
switchScene(index, off) ==
  IF SwitchGuard(index, currentIndex)
  THEN /\ camOffset' = off
       /\ UNCHANGED sceneVars
  ELSE LET removed == IF cameraParent = currentScene.id THEN NoScene ELSE cameraParent
       IN  IF index < 0 \/ index >= NumScenes
           THEN \* sceneDefs[index] is undefined: .build() throws, after the
                \* camera was removed and currentIndex assigned
                /\ cameraParent' = removed
                /\ currentIndex' = index
                /\ crashed' = TRUE
                /\ camOffset' = off
                /\ UNCHANGED << currentScene, currentAnimate, viewScene, titleText,
                                nBuilt, built, calls >>
           ELSE \E fresh \in Build(index, nBuilt + 1) :
                /\ nBuilt' = nBuilt + 1
                /\ currentIndex' = index
                /\ currentScene' = fresh
                /\ built' = fresh
                /\ currentAnimate' = fresh.id
                /\ cameraParent' = fresh.id
                /\ viewScene' = fresh.id
                /\ titleText' = Title(index)
                /\ camOffset' = ResetOffset(off)
                /\ calls' = NoCalls
                /\ crashed' = FALSE

\* ------------------------------------------------------- keypress handler
\* const speed = 0.5 (CameraOffset x and y are held in 1/1000000)
speed == 500000
\* the yaw step 0.08, in milli-radians
YawStep == 80
\* the zoom step 1, in 1/1000
ZoomStep == 1000

\* the key names the model delivers: the table's keys and two outside it
KeyNames == { "w", "s", "a", "d", "up", "down", "left", "right", "q", "e",
              "z", "x", "u", "r", "1", "2", "3", "space", "c" }

\* a mutant of the keymap: the arrow keys are not bound
MoveKeysNoArrows(off, name) ==
  LET o1 == IF name = "w" THEN [off EXCEPT !.y = @ + speed] ELSE off
      o2 == IF name = "s" THEN [o1 EXCEPT !.y = @ - speed] ELSE o1
      o3 == IF name = "a" THEN [o2 EXCEPT !.x = @ - speed] ELSE o2
      o4 == IF name = "d" THEN [o3 EXCEPT !.x = @ + speed] ELSE o3
      o5 == IF name = "q" THEN [o4 EXCEPT !.rotY = @ + YawStep] ELSE o4
      o6 == IF name = "e" THEN [o5 EXCEPT !.rotY = @ - YawStep] ELSE o5
      o7 == IF name = "z" THEN [o6 EXCEPT !.z = @ + ZoomStep] ELSE o6
      o8 == IF name = "x" THEN [o7 EXCEPT !.z = @ - ZoomStep] ELSE o7
  IN  o8

\* the eight offset statements of the handler, in order
MoveKeys(off, name) ==
  LET o1 == IF name = "w" \/ name = "up" THEN [off EXCEPT !.y = @ + speed] ELSE off
      o2 == IF name = "s" \/ name = "down" THEN [o1 EXCEPT !.y = @ - speed] ELSE o1
      o3 == IF name = "a" \/ name = "left" THEN [o2 EXCEPT !.x = @ - speed] ELSE o2
      o4 == IF name = "d" \/ name = "right" THEN [o3 EXCEPT !.x = @ + speed] ELSE o3
      o5 == IF name = "q" THEN [o4 EXCEPT !.rotY = @ + YawStep] ELSE o4
      o6 == IF name = "e" THEN [o5 EXCEPT !.rotY = @ - YawStep] ELSE o5
      o7 == IF name = "z" THEN [o6 EXCEPT !.z = @ + ZoomStep] ELSE o6
      o8 == IF name = "x" THEN [o7 EXCEPT !.z = @ - ZoomStep] ELSE o7
  IN  o8

\* a mutant of the reset statement: the zoom offset survives
ResetKeyKeepZoom(off, name) ==
  IF name = "r" THEN [off EXCEPT !.x = 0, !.y = 0, !.rotY = 0] ELSE off

\* if (key.name === "r") { ... }
ResetKey(off, name) == IF name = "r" THEN ResetOffset(off) ELSE off

\* the keypress listener, for one key event
KeyPress(name) ==
  /\ ~crashed
  /\ nKeys < MaxKeys
  /\ nKeys' = nKeys + 1
  /\ lastEvent' = Event("key", name)
  /\ superSampling' = IF name = "u" THEN ~superSampling ELSE superSampling
  /\ LET off == ResetKey(MoveKeys(camOffset, name), name)
     IN  IF name = "1" THEN switchScene(0, off)
         ELSE IF name = "2" THEN switchScene(1, off)
         ELSE IF name = "3" THEN switchScene(2, off)
         ELSE camOffset' = off /\ UNCHANGED sceneVars
  /\ UNCHANGED << camera, now, nFrames, nSwitch >>
  /\ UNCHANGED << layout, singleVars >>

\* --------------------------------------------------------- frame callback
\* a mutant of the camera placement: the look target stays at the origin
PlaceCameraLookOrigin(def, time, off) ==
  LET camAngle == time * def.orbitSpeed + off.rotY
      orbitRadius == def.orbitRadius + off.z
  IN  [ position |-> Vec(Sin(camAngle) * orbitRadius + off.x,
                         def.orbitHeight * Milli + Sin(time * 150) * 3000 + off.y,
                         Cos(camAngle) * orbitRadius),
        target |-> Vec(0, 0, 0) ]

\* camera orbit + user offsets, then camera.lookAt
PlaceCamera(def, time, off) ==
  LET camAngle == time * def.orbitSpeed + off.rotY
      orbitRadius == def.orbitRadius + off.z
  IN  [ position |-> Vec(Sin(camAngle) * orbitRadius + off.x,
                         def.orbitHeight * Milli + Sin(time * 150) * 3000 + off.y,
                         Cos(camAngle) * orbitRadius),
        target |-> Vec(off.x, off.y, 0) ]

\* the frame callback, run with the clock at `time` and the host's deltaTime
Frame(time, deltaTime) ==
  /\ ~crashed
  /\ nFrames < MaxFrames
  /\ time >= now
  /\ nFrames' = nFrames + 1
  /\ lastEvent' = Event("frame", 0)
  /\ now' = time
  /\ IF currentAnimate = currentScene.id
     THEN /\ currentScene' = Animate(currentScene, time, deltaTime)
          /\ calls' = Called(calls, time, deltaTime)
     ELSE UNCHANGED << currentScene, calls >>
  /\ camera' = PlaceCamera(sceneDefs[currentIndex + 1], time, camOffset)
  /\ UNCHANGED << camOffset, currentIndex, currentAnimate, cameraParent, viewScene,
                  titleText, superSampling, crashed, nBuilt, built, nKeys, nSwitch >>
  /\ UNCHANGED << layout, singleVars >>

Times == 0..MaxTime
Deltas == 0..MaxDelta

KeyStep == \E name \in KeyNames : KeyPress(name)
FrameStep == \E time \in Times, deltaTime \in Deltas : Frame(time, deltaTime)

Next == KeyStep \/ FrameStep

\* the program: key presses and frame callbacks, one at a time
Spec == Init /\ [][Next]_vars

\* ------------------------------------------- switchScene called directly
\* the indexes switchScene is called with: in range, -1 and sceneDefs.length
SwitchArgs == (0 - 1)..NumScenes

SwitchSceneCall(index) ==
  /\ ~crashed
  /\ nSwitch < MaxSwitch
  /\ nSwitch' = nSwitch + 1
  /\ lastEvent' = Event("switchScene", index)
  /\ switchScene(index, camOffset)
  /\ UNCHANGED << superSampling, camera, now, nKeys, nFrames >>
  /\ UNCHANGED << layout, singleVars >>

SwitchStep == \E index \in SwitchArgs : SwitchSceneCall(index)

NextSwitch == KeyStep \/ SwitchStep

\* key presses, and switchScene called with any index in between
SpecSwitch == Init /\ [][NextSwitch]_vars

\* ------------------------------------------------ the animator by itself
\* a scene of any definition, right after its build
InitAnim ==
  /\ \E index \in 0..(NumScenes - 1) :
       /\ currentIndex = index
       /\ currentScene \in Build(index, 1)
       /\ titleText = Title(index)
  /\ camOffset = ZeroOffset
  /\ currentAnimate = 1
  /\ cameraParent = 1
  /\ viewScene = 1
  /\ superSampling = FALSE
  /\ camera = [position |-> Vec(0, 8 * Micro, 18 * Micro), target |-> Vec(0, 0, 0)]
  /\ now = 0
  /\ crashed = FALSE
  /\ nBuilt = 1
  /\ built = currentScene
  /\ calls = NoCalls
  /\ lastEvent = Event("build", 0)
  /\ nKeys = 0
  /\ nFrames = 0
  /\ nSwitch = 0
  /\ layout = StartLayout
  /\ InitSingle
  /\ ~sSuper

\* currentAnimate(time, deltaTime), with any time and any delta
AnimateCall(time, deltaTime) ==
  /\ calls.n < MaxCalls
  /\ currentScene' = Animate(currentScene, time, deltaTime)
  /\ calls' = Called(calls, time, deltaTime)
  /\ lastEvent' = Event("animate", 0)
  /\ UNCHANGED << camOffset, currentIndex, currentAnimate, cameraParent, viewScene,
                  titleText, superSampling, camera, now, crashed, nBuilt, built,
                  nKeys, nFrames, nSwitch >>
  /\ UNCHANGED << layout, singleVars >>

NextAnim ==
  \E time \in 0..MaxAnimTime, deltaTime \in 0..MaxAnimDelta : AnimateCall(time, deltaTime)

\* any sequence of animate calls on one built scene
SpecAnim == InitAnim /\ [][NextAnim]_vars

\* ------------------------------------------------------ resize listener
\* renderer.on("resize", ...) of the multi-scene program: it moves the
\* controls text and nothing else
Resize(size) ==
  /\ ~crashed
  /\ size # layout.terminal
  /\ layout' = [layout EXCEPT !.terminal = size, !.controlsY = size[2] - 1]
  /\ lastEvent' = Event("resize", size)
  /\ UNCHANGED << camOffset, currentIndex, currentScene, currentAnimate, cameraParent,
                  viewScene, titleText, superSampling, camera, now, crashed, nBuilt,
                  built, calls, nKeys, nFrames, nSwitch >>
  /\ UNCHANGED singleVars

ResizeStep == \E size \in Sizes : Resize(size)

NextResize == KeyStep \/ FrameStep \/ ResizeStep

\* the multi-scene program with a terminal that changes its size
SpecResize == Init /\ [][NextResize]_vars

\* ----------------------------------- the single-scene program: handlers
\* the key names delivered: the bound ones, and one that is not bound
SingleKeyNames == {"w", "s", "a", "d", "q", "e", "z", "x", "u", "r", "up"}

\* the keys that move, rotate or zoom the camera
PoseKeys == {"w", "s", "a", "d", "q", "e", "z", "x"}

\* the camera after the keypress listener; speed, the rotation step and the
\* zoom step have the values of the multi-scene program
SingleKeys(pose, name) ==
  IF name = "w" THEN translate(pose, "Y", speed)
  ELSE IF name = "s" THEN translate(pose, "Y", 0 - speed)
  ELSE IF name = "a" THEN translate(pose, "X", 0 - speed)
  ELSE IF name = "d" THEN translate(pose, "X", speed)
  ELSE IF name = "q" THEN rotateY(pose, YawStep)
  ELSE IF name = "e" THEN rotateY(pose, 0 - YawStep)
  ELSE IF name = "z" THEN translate(pose, "Z", ZoomStep * Milli)
  ELSE IF name = "x" THEN translate(pose, "Z", 0 - ZoomStep * Milli)
  ELSE IF name = "r" THEN Placed(Vec(0, 8 * Micro, 18 * Micro))
  ELSE pose

\* the keypress listener, for one key event
SingleKeyPress(name) ==
  /\ sHist.keys < MaxKeys
  /\ sCamera' = SingleKeys(sCamera, name)
  /\ sSuper' = IF name = "u" THEN ~sSuper ELSE sSuper
  /\ sHist' = SingleHist(Event("key", name), sHist.keys + 1, sHist.frames,
                         IF name \in PoseKeys THEN TRUE
                         ELSE IF name = "r" THEN FALSE ELSE sHist.moved)
  /\ UNCHANGED << sScene, sPending, sDrawn, sLayout, sNow >>
  /\ UNCHANGED << multiVars, layout >>

\* "Slow camera orbit": position.x, .z and .y are assigned, then lookAt(0, 0, 0)
OrbitPose(time) ==
  LET camAngle == time * 80
  IN  Placed(Vec(Sin(camAngle) * 18000,
                 6 * Micro + Sin(time * 150) * 3000,
                 Cos(camAngle) * 18000))

\* the transforms of `animate`: the statements of the solar system's closure
SingleAnimate(s, time, deltaTime) == AnimateSolar(s, time, deltaTime)

\* the 'frame' listener `animate`, from its start to its await: it reads the
\* clock, writes the transforms, places the camera and calls engine.drawScene;
\* the emitter does not wait for the promise the listener returns
animate(time, deltaTime) ==
  /\ sHist.frames < MaxListenerFrames
  /\ time >= sNow
  /\ sNow' = time
  /\ sScene' = SingleAnimate(sScene, time, deltaTime)
  /\ sCamera' = OrbitPose(time)
  /\ sPending' = Append(sPending, [ frame |-> sHist.frames + 1, time |-> time,
                                    pose |-> sCamera',
                                    size |-> sLayout.frameBuffer,
                                    aspect |-> sLayout.aspect ])
  /\ sHist' = SingleHist(Event("frame", sHist.frames + 1), sHist.keys,
                         sHist.frames + 1, sHist.moved)
  /\ UNCHANGED << sDrawn, sLayout, sSuper >>
  /\ UNCHANGED << multiVars, layout >>

\* sPending without its i-th element
Without(q, i) == [k \in 1..(Len(q) - 1) |-> IF k < i THEN q[k] ELSE q[k + 1]]

\* a drawScene call completes and its `animate` resumes and returns; the
\* engine has read the camera either when it was called or later on
drawSceneCompletes(i) ==
  /\ i \in DOMAIN sPending
  /\ \E pose \in {sPending[i].pose, sCamera} :
       sDrawn' = [frame |-> sPending[i].frame, time |-> sPending[i].time, pose |-> pose]
  /\ sPending' = Without(sPending, i)
  /\ sHist' = [sHist EXCEPT !.last = Event("drawn", sPending[i].frame)]
  /\ UNCHANGED << sCamera, sScene, sLayout, sSuper, sNow >>
  /\ UNCHANGED << multiVars, layout >>

\* renderer.on("resize", ...) of the single-scene program
SingleResize(size) ==
  /\ size # sLayout.terminal
  /\ sLayout' = [ terminal |-> size,
                  frameBuffer |-> size,
                  engine |-> size,
                  aspect |-> Ratio(size[1], size[2]),
                  controlsY |-> size[2] - 1 ]
  /\ sHist' = [sHist EXCEPT !.last = Event("resize", size)]
  /\ UNCHANGED << sCamera, sScene, sPending, sDrawn, sSuper, sNow >>
  /\ UNCHANGED << multiVars, layout >>

SingleKeyStep == \E name \in SingleKeyNames : SingleKeyPress(name)
SingleFrameStep == \E time \in Times, deltaTime \in Deltas : animate(time, deltaTime)
DrawStep == \E i \in 1..MaxListenerFrames : drawSceneCompletes(i)
SingleResizeStep == \E size \in Sizes : SingleResize(size)

NextSingle == SingleKeyStep \/ SingleFrameStep \/ DrawStep \/ SingleResizeStep

\* the single-scene program: key presses, frame events, completions of
\* drawScene and resizes, one at a time
SpecSingle == InitSingleRun /\ [][NextSingle]_vars

\* ================================================================= claims

\* ----------------------------------------------------------------- C1
\* C1: after the 'r' key is handled, CameraOffset is the zero record
\* (x = 0, y = 0, z = 0, rotY = 0), whatever was handled before it.
C1_ResetZeroesOffset ==
  lastEvent = Event("key", "r") => camOffset = [x |-> 0, y |-> 0, z |-> 0, rotY |-> 0]

\* 'r' handled after a frame was drawn with a panned camera
C1_Witness ==
  /\ lastEvent = Event("key", "r")
  /\ camera.target.x # 0
  /\ camOffset = ZeroOffset

\* ----------------------------------------------------------------- C2
\* the transforms and references a no-op switch must leave alone
SwitchFrame == << currentScene, currentAnimate, cameraParent, viewScene,
                  titleText, currentIndex, camOffset >>

\* C2: switchScene(index) with index the active index, negative or >= the
\* number of scene definitions changes nothing (scene, animate function,
\* camera parent, title, index, CameraOffset) and does not throw.
C2_SwitchNoOp ==
  [][ \A index \in SwitchArgs :
        ( /\ SwitchSceneCall(index)
          /\ (index = currentIndex \/ index < 0 \/ index >= Len(sceneDefs)) )
        => (UNCHANGED SwitchFrame /\ ~crashed') ]_vars

\* switchScene(sceneDefs.length) returned with accumulated offsets in place
C2_Witness ==
  /\ lastEvent = Event("switchScene", NumScenes)
  /\ camOffset # ZeroOffset
  /\ ~crashed

\* ----------------------------------------------------------------- C3
\* the index a digit key asks for
KeyIndex(name) == IF name = "1" THEN 0 ELSE IF name = "2" THEN 1 ELSE 2

\* C3: key '1', '2' or '3' whose index i differs from the active one makes
\* i active, installs a newly built scene of definition i and its animate
\* function, zeroes CameraOffset and shows the title of definition i.
C3_DigitSwitches ==
  [][ \A name \in {"1", "2", "3"} :
        (KeyPress(name) /\ KeyIndex(name) # currentIndex)
        => /\ currentIndex' = KeyIndex(name)
           /\ currentScene' \in Build(KeyIndex(name), nBuilt + 1)
           /\ currentScene'.id \notin 1..nBuilt
           /\ currentAnimate' = currentScene'.id
           /\ camOffset' = [x |-> 0, y |-> 0, z |-> 0, rotY |-> 0]
           /\ titleText' = << "*", sceneDefs[KeyIndex(name) + 1].title, "*" >> ]_vars

\* '2' handled after a frame was drawn with a panned camera
C3_Witness ==
  /\ lastEvent = Event("key", "2")
  /\ currentIndex = 1
  /\ currentScene.def = 1
  /\ camera.target.x # 0
  /\ camOffset = ZeroOffset

\* ----------------------------------------------------------------- C4
\* the key table of the specification: what one press adds to CameraOffset
\* (0.5 = 500000, 0.08 = 80, 1 = 1000 in the units of the record)
TableDelta(name) ==
  IF name \in {"w", "up"} THEN [x |-> 0, y |-> 500000, z |-> 0, rotY |-> 0]
  ELSE IF name \in {"s", "down"} THEN [x |-> 0, y |-> 0 - 500000, z |-> 0, rotY |-> 0]
  ELSE IF name \in {"a", "left"} THEN [x |-> 0 - 500000, y |-> 0, z |-> 0, rotY |-> 0]
  ELSE IF name \in {"d", "right"} THEN [x |-> 500000, y |-> 0, z |-> 0, rotY |-> 0]
  ELSE IF name = "q" THEN [x |-> 0, y |-> 0, z |-> 0, rotY |-> 80]
  ELSE IF name = "e" THEN [x |-> 0, y |-> 0, z |-> 0, rotY |-> 0 - 80]
  ELSE IF name = "z" THEN [x |-> 0, y |-> 0, z |-> 1000, rotY |-> 0]
  ELSE IF name = "x" THEN [x |-> 0, y |-> 0, z |-> 0 - 1000, rotY |-> 0]
  ELSE [x |-> 0, y |-> 0, z |-> 0, rotY |-> 0]

OffsetKeys == {"w", "up", "s", "down", "a", "left", "d", "right", "q", "e", "z", "x"}
TableKeys == OffsetKeys \cup {"r", "u", "1", "2", "3"}

\* C4: one key press does exactly what the key table says: an offset key adds
\* its step to one component and leaves the rest and the scene alone, 'u'
\* only toggles supersampling, a key outside the table changes nothing.
C4_KeyTable ==
  [][ \A name \in KeyNames :
        KeyPress(name) =>
          /\ name \in OffsetKeys =>
               /\ camOffset' = [f \in DOMAIN camOffset |-> camOffset[f] + TableDelta(name)[f]]
               /\ UNCHANGED << currentIndex, currentScene, currentAnimate, titleText,
                               superSampling >>
          /\ name = "u" =>
               /\ superSampling' = ~superSampling
               /\ UNCHANGED << camOffset, currentIndex, currentScene, currentAnimate,
                               titleText, cameraParent, viewScene, camera >>
          /\ name \notin TableKeys =>
               UNCHANGED << camOffset, currentIndex, currentScene, currentAnimate,
                            titleText, superSampling >> ]_vars

\* an arrow key handled on top of an earlier offset
C4_Witness ==
  /\ lastEvent = Event("key", "left")
  /\ camOffset = [x |-> 0 - 500000, y |-> 500000, z |-> 0, rotY |-> 0]

\* ----------------------------------------------------------------- C5
\* exactly one animate call was made on the scene, with time = 0, deltaTime = 0
FirstCallAtZero == calls = [n |-> 1, time |-> 0, delta |-> 0, same |-> TRUE]

\* C5 as stated: after animate(0, 0) on the freshly built solar system every
\* transform equals its construction-time value.
C5_AsStated ==
  (currentScene.def = 0 /\ FirstCallAtZero) => currentScene = built

\* C5, amended: after animate(0, 0) on the freshly built solar system the
\* sun scale is 1, every body's mesh is at x = orbitRadius with its orbit
\* angle and self-rotation 0; the mesh height is the body's yOffset, the
\* group is tilted by the body's tilt, every moon is at (orbitRadius, 0, 0),
\* the comet at (16, 0, 0), the accent lights at (0, 5, 12) and (10, 0, 0).
C5_AtTimeZero ==
  (currentScene.def = 0 /\ FirstCallAtZero) =>
    /\ currentScene.sun = [scale |-> Vec(Micro, Micro, Micro), rotY |-> 0]
    /\ \A i \in DOMAIN currentScene.bodies :
         LET b == currentScene.bodies[i]
         IN  /\ b.mesh.pos = Vec(b.orbitRadius * Milli, b.yOffset * Milli, 0)
             /\ b.mesh.rotX = 0 /\ b.mesh.rotY = 0
             /\ b.group = [rotY |-> 0, rotZ |-> b.tilt]
    /\ \A i \in DOMAIN currentScene.moons :
         currentScene.moons[i].pos = Vec(currentScene.moons[i].orbitRadius * Milli, 0, 0)
    /\ currentScene.comet = [pos |-> Vec(16 * Micro, 0, 0), rotX |-> 0, rotZ |-> 0]
    /\ currentScene.accentLight1 = Vec(0, 5 * Micro, 12 * Micro)
    /\ currentScene.accentLight2 = Vec(10 * Micro, 0, 0)
    /\ currentScene.sunLight = Vec(0, 0, 0)

\* the solar system after its first animate call, made with (0, 0)
C5_Witness ==
  /\ currentScene.def = 0
  /\ FirstCallAtZero
  /\ lastEvent = Event("animate", 0)

\* ----------------------------------------------------------------- C6
\* C6: after any sequence of animate calls whose last has time t, every
\* body's orbit angle is t * orbitSpeed and every asteroid sits at drift
\* angle driftAngle + t * driftSpeed, whatever the earlier calls were.
C6_OrbitAbsolute ==
  calls.n >= 1 =>
    /\ currentScene.def = 0 =>
         \A i \in DOMAIN currentScene.bodies :
           currentScene.bodies[i].group.rotY = calls.time * currentScene.bodies[i].orbitSpeed
    /\ currentScene.def = 2 =>
         \A k \in DOMAIN currentScene.asteroids :
           LET a == currentScene.asteroids[k]
               angle == a.driftAngle + calls.time * a.driftSpeed
           IN  /\ a.pos.x = Cos(angle) * a.driftRadius
               /\ a.pos.z = Sin(angle) * a.driftRadius

\* three calls with unequal deltas, the last at time 2, on the solar system
C6_Witness ==
  /\ currentScene.def = 0
  /\ calls.n = 3 /\ ~calls.same /\ calls.time = 2
  /\ currentScene.bodies[1].group.rotY = 2400
  /\ currentScene.bodies[1].mesh.rotY > 0

\* ----------------------------------------------------------------- C7
\* the deltaTime-accumulated quantities of a scene: mesh.rotation.x and .y of
\* every body, or of every asteroid
Accumulated(s) ==
  IF s.def = 0
  THEN [i \in DOMAIN s.bodies |-> << s.bodies[i].mesh.rotX, s.bodies[i].mesh.rotY >>]
  ELSE IF s.def = 2
  THEN [k \in DOMAIN s.asteroids |-> << s.asteroids[k].rotX, s.asteroids[k].rotY >>]
  ELSE << >>

\* C7: N animate calls with deltaTime = d accumulate the self-rotation that
\* one call with deltaTime = N * d accumulates from the same start.
C7_SpinLinear ==
  (calls.n >= 1 /\ calls.same) =>
    Accumulated(currentScene)
      = Accumulated(Animate(built, calls.time, calls.n * calls.delta))

\* four calls of delta 3 each on the solar system: 2.0 * 12 on the first body
C7_Witness ==
  /\ currentScene.def = 0
  /\ calls.n = 4 /\ calls.same /\ calls.delta = 3
  /\ currentScene.bodies[1].mesh.rotY = 24000

\* ----------------------------------------------------------------- C8
\* C8: an animate call with deltaTime = 0 leaves every accumulated rotation
\* as it was, at any time and from any state (the step is a product with
\* deltaTime, never a quotient).
C8_ZeroDeltaNoOp ==
  [][ \A time \in 0..MaxAnimTime :
        AnimateCall(time, 0) => Accumulated(currentScene') = Accumulated(currentScene) ]_vars

\* a zero-delta call on asteroids that had already turned
C8_Witness ==
  /\ currentScene.def = 2
  /\ calls.n >= 2 /\ calls.delta = 0 /\ ~calls.same
  /\ Accumulated(currentScene) # Accumulated(built)

\* ----------------------------------------------------------------- C9
\* a scene with its accumulated self-rotations blanked
TimeDriven(s) ==
  IF s.def = 0
  THEN [s EXCEPT !.bodies = [i \in DOMAIN s.bodies |->
                   [s.bodies[i] EXCEPT !.mesh.rotX = 0, !.mesh.rotY = 0]]]
  ELSE IF s.def = 2
  THEN [s EXCEPT !.asteroids = [k \in DOMAIN s.asteroids |->
                   [s.asteroids[k] EXCEPT !.rotX = 0, !.rotY = 0]]]
  ELSE s

\* C9 as stated: a run that reaches time t ends with the transforms of the
\* run that makes the last call alone, for every entity.
C9_AsStated ==
  calls.n >= 1 => currentScene = Animate(built, calls.time, calls.delta)

\* C9, amended: position, scale and the rotations set from time are the same
\* for every run that reaches time t, whatever its calls and deltas; the
\* self-rotation of bodies and asteroids is excepted.
C9_TimeDrivenPure ==
  calls.n >= 1 =>
    \A deltaTime \in 0..MaxAnimDelta :
      TimeDriven(currentScene) = TimeDriven(Animate(built, calls.time, deltaTime))

\* the asteroid field at time 1 after several calls with unequal deltas
C9_Witness ==
  /\ currentScene.def = 2
  /\ calls.n >= 3 /\ ~calls.same /\ calls.time = 1
  /\ currentScene # Animate(built, calls.time, calls.delta)

\* ---------------------------------------------------------------- C10
\* C10: after a frame callback the camera is on the active definition's
\* orbit (angle time * orbitSpeed + rotY, radius orbitRadius + z, height
\* orbitHeight + bob) moved by CameraOffset x and y, it looks at
\* (x, y, 0), and the vector from the target to the camera is free of x, y.
C10_CameraPlacement ==
  lastEvent.op = "frame" =>
    LET def == sceneDefs[currentIndex + 1]
        angle == now * def.orbitSpeed + camOffset.rotY
        radius == def.orbitRadius + camOffset.z
        height == def.orbitHeight * Milli + Sin(now * 150) * 3000
    IN  /\ camera.position = Vec(Sin(angle) * radius + camOffset.x,
                                 height + camOffset.y,
                                 Cos(angle) * radius)
        /\ camera.target = Vec(camOffset.x, camOffset.y, 0)
        /\ camera.position.x - camera.target.x = Sin(angle) * radius
        /\ camera.position.y - camera.target.y = height
        /\ camera.position.z - camera.target.z = Cos(angle) * radius

\* a frame at time 1 with the camera panned on both axes
C10_Witness ==
  /\ lastEvent.op = "frame"
  /\ now = 1
  /\ camOffset.x # 0 /\ camOffset.y # 0
  /\ camera.target = Vec(camOffset.x, camOffset.y, 0)


\* ----------------------------------------------------------------- C11
\* C11: every drawScene call still in progress was issued by the latest
\* transform computation, with the camera that computation placed: the
\* transforms and the camera placement of frame n are complete when the render
\* of frame n starts, and no frame's transforms are computed while a render
\* is in progress
C11_RenderBeforeNextTransforms ==
  \A i \in DOMAIN sPending :
    /\ sPending[i].pose = OrbitPose(sPending[i].time)
    /\ sPending[i].frame = sHist.frames

\* ----------------------------------------------------------------- C12
\* C12: when a keypress handler has just run, no frame callback is between
\* its start and its completion, and every completed render has drawn the
\* camera pose its own frame placed
C12_NoKeyInsideFrame ==
  /\ sHist.last.op = "key" => sPending = << >>
  /\ sDrawn.frame > 0 => sDrawn.pose = OrbitPose(sDrawn.time)


\* ----------------------------------------------------------------- C13
\* C13: a frame callback that follows the delivery of a resize event renders
\* with the view dimensions of the new terminal size and with the camera
\* aspect ratio of that size
C13_ResizeBeforeRender ==
  [][ (lastEvent.op = "resize" /\ lastEvent'.op = "frame")
        => /\ layout'.view = layout'.terminal
           /\ layout'.aspect = Ratio(layout'.terminal[1], layout'.terminal[2]) ]_vars


\* ----------------------------------------------------------------- C14
\* C14: in the single-scene program, once a move, rotate or zoom key has been
\* pressed and 'r' has not been pressed since, the camera pose a frame hands
\* to the render differs from the pose that frame places when no key was
\* pressed, which is the orbit pose of the frame's time
C14_KeyChangesRenderedPose ==
  (sHist.last.op = "frame" /\ sHist.moved)
    => sPending[Len(sPending)].pose # OrbitPose(sNow)


\* ----------------------------------------------------------------- C15
\* C15: after any key presses and frame callbacks of the multi-scene program
\* the active index is in 0..2, the camera's parent is the current scene, the
\* 3D view holds the current scene, currentAnimate is the closure returned by
\* the build call that returned the current scene, that build is the one of
\* the definition at the active index, and the title text is that
\* definition's title
C15_SwitchStateConsistent ==
  /\ currentIndex \in 0..2
  /\ cameraParent = currentScene.id
  /\ viewScene = currentScene.id
  /\ currentAnimate = currentScene.id
  /\ currentScene.def = currentIndex
  /\ titleText = << "*", sceneDefs[currentIndex + 1].title, "*" >>

\* a frame callback has run after a switch to the third scene
C15_Witness ==
  /\ lastEvent.op = "frame"
  /\ currentIndex = 2
  /\ nBuilt = 2
  /\ calls.n = 1

====
